---- MODULE Spec2Model ----
(***************************************************************************)
(* BoltPaymentStrategy (src/payment/strategies/bolt/bolt-payment-strategy) *)
(* as a state machine.  The strategy's five private fields are the program *)
(* state; every public method is an asynchronous call that is split at its *)
(* await points, so that the order of its side effects is observable.  One *)
(* call is in flight at a time (the host runtime is single threaded and    *)
(* the strategy is not re-entered).  The script loader, the store and the  *)
(* provider SDK are the environment: what they return is chosen with \E.   *)
(***************************************************************************)
EXTENDS Integers, Sequences, FiniteSets, TLC

(***************************************************************************)
(* Bounds of the model.                                                    *)
(***************************************************************************)
\* provider callbacks (success or close) fired for one opened provider UI
MaxCallbacks == 2

(***************************************************************************)
(* JavaScript values.  Optional values and booleans that may be undefined  *)
(* are strings, so that a flag computed with && keeps the value JavaScript *)
(* gives it.                                                               *)
(***************************************************************************)
Undefined == "undefined"
JsTrue == "true"
JsFalse == "false"
JsBool == {JsTrue, JsFalse}
JsOptBool == {JsTrue, JsFalse, Undefined}

\* ToBoolean of a boolean-or-undefined value, an optional handle or a string
Truthy(v) == v # Undefined /\ v # JsFalse /\ v # ""

\* a && b
JsAnd(a, b) == IF Truthy(a) THEN b ELSE a

\* !a
JsNot(a) == IF Truthy(a) THEN JsFalse ELSE JsTrue

(***************************************************************************)
(* Inputs.                                                                 *)
(***************************************************************************)
MethodIds == {Undefined, "bolt"}
ContainerIds == {Undefined, "container"}

\* PaymentInitializeOptions: { methodId, bolt?: { useBigCommerceCheckout, containerId? } }
\* (hasBolt = FALSE is options.bolt absent)
InitializeOptions ==
    [methodId : MethodIds, hasBolt : {TRUE},
     useBigCommerceCheckout : JsBool, containerId : ContainerIds]
    \cup
    [methodId : MethodIds, hasBolt : {FALSE},
     useBigCommerceCheckout : {Undefined}, containerId : {Undefined}]

\* what state.paymentMethods.getPaymentMethod(methodId) returns during initialize
\* (found = FALSE is no payment method)
StorePaymentMethods ==
    [found : {TRUE}, publishableKey : {Undefined, "key"},
     embeddedOneClickEnabled : JsOptBool]
    \cup
    [found : {FALSE}, publishableKey : {Undefined},
     embeddedOneClickEnabled : {Undefined}]

NoOptions ==
    [methodId |-> Undefined, hasBolt |-> FALSE,
     useBigCommerceCheckout |-> Undefined, containerId |-> Undefined]

NoPaymentMethod ==
    [found |-> FALSE, publishableKey |-> Undefined,
     embeddedOneClickEnabled |-> Undefined]

\* OrderRequestBody: { payment?: { methodId, paymentData?: { shouldSaveInstrument? } }, ...order }
Payloads ==
    [hasPayment : {TRUE}, methodId : MethodIds, hasPaymentData : {TRUE},
     shouldSaveInstrument : JsOptBool]
    \cup
    [hasPayment : {TRUE}, methodId : MethodIds, hasPaymentData : {FALSE},
     shouldSaveInstrument : {Undefined}]
    \cup
    [hasPayment : {FALSE}, methodId : {Undefined}, hasPaymentData : {FALSE},
     shouldSaveInstrument : {Undefined}]

NoPayload ==
    [hasPayment |-> FALSE, methodId |-> Undefined, hasPaymentData |-> FALSE,
     shouldSaveInstrument |-> Undefined]

(***************************************************************************)
(* Errors.                                                                 *)
(***************************************************************************)
InvalidArgumentMethodId == "InvalidArgumentError(options.methodId)"
InvalidArgumentContainerId == "InvalidArgumentError(options.bolt.containerId)"
MissingPaymentMethod == "MissingDataError(MissingPaymentMethod)"
MissingPayment == "MissingDataError(MissingPayment)"
MissingCheckout == "MissingDataError(MissingCheckout)"
NotInitialized == "NotInitializedError(PaymentNotInitialized)"
PaymentArgumentInvalidPayment == "PaymentArgumentInvalidError(payment)"
PaymentArgumentInvalid == "PaymentArgumentInvalidError()"
PaymentMethodCancelled == "PaymentMethodCancelledError"
PaymentMethodInvalid == "PaymentMethodInvalidError"
OrderFinalizationNotRequired == "OrderFinalizationNotRequiredError"
TypeError == "TypeError"
\* rejections that come from the collaborators
ScriptLoadFailed == "ScriptLoadError"
RequestFailed == "RequestError"
TokenizeFailed == "TokenizeError"

(***************************************************************************)
(* State.                                                                  *)
(***************************************************************************)
VARIABLES
    boltClient,        \* _boltClient: Undefined or "client"
    boltEmbedded,      \* _boltEmbedded: Undefined or "embedded"
    embeddedField,     \* _embeddedField: Undefined or the selector it is mounted into
    useBoltClient,     \* _useBoltClient
    useBoltEmbedded,   \* _useBoltEmbedded
    pc,                \* where the call in flight is suspended; "idle" when none is
    op,                \* the method of the call in flight, or of the last call
    options,           \* the options of the last initialize call
    paymentMethod,     \* the payment method the last initialize call found in the store
    payload,           \* the payload of the last execute call
    handler,           \* the handler the last execute call dispatched to
    transaction,       \* the promise bridging the provider callbacks (lines 126-142)
    fired,             \* the provider callbacks fired for this execute's UI, in order
    completions,       \* invocations of the provider-supplied completion callback
    tokenizeResult,    \* what tokenize() returned (line 172)
    useStoreCredit,    \* isStoreCreditApplied of the checkout read at line 111
    loadedPaymentMethod, \* the payment method read at line 118
    transactionReference, \* what getTransactionReference() returned (line 235)
    paymentPayload,    \* the payload given to submitPayment by this call
    log,               \* the call's requests to its collaborators and, for the store's
                       \* dispatches, how each settled, in order
    result,            \* "pending", "resolved" or the error the call failed with
    entry,             \* the private fields as they were when the call started
    lifecycle          \* "uninitialized" (no initialize has succeeded), "initialized"
                       \* (an initialize has succeeded, no deinitialize since) or
                       \* "deinitialized" (deinitialize since the last successful one)

fields == <<boltClient, boltEmbedded, embeddedField, useBoltClient, useBoltEmbedded>>
reads == <<useStoreCredit, loadedPaymentMethod, transactionReference>>
locals == <<handler, transaction, fired, completions, tokenizeResult, paymentPayload,
            useStoreCredit, loadedPaymentMethod, transactionReference>>
vars == <<boltClient, boltEmbedded, embeddedField, useBoltClient, useBoltEmbedded,
          pc, op, options, paymentMethod, payload, handler, transaction, fired,
          completions, tokenizeResult, paymentPayload, useStoreCredit,
          loadedPaymentMethod, transactionReference, log, result, entry, lifecycle>>

Fields ==
    [boltClient |-> boltClient, boltEmbedded |-> boltEmbedded,
     embeddedField |-> embeddedField, useBoltClient |-> useBoltClient,
     useBoltEmbedded |-> useBoltEmbedded]

NoTransaction == [state |-> "none", reference |-> Undefined]
NoTokenizeResult == [kind |-> "none"]
NoPaymentPayload == [kind |-> "none"]
NoLoadedPaymentMethod == [state |-> "none", found |-> FALSE, clientToken |-> Undefined]

\* lines 17-21: the fields of a new instance
Init ==
    /\ boltClient = Undefined
    /\ boltEmbedded = Undefined
    /\ embeddedField = Undefined
    /\ useBoltClient = JsFalse
    /\ useBoltEmbedded = JsFalse
    /\ pc = "idle"
    /\ op = "none"
    /\ options = NoOptions
    /\ paymentMethod = NoPaymentMethod
    /\ payload = NoPayload
    /\ handler = "none"
    /\ transaction = NoTransaction
    /\ fired = <<>>
    /\ completions = 0
    /\ tokenizeResult = NoTokenizeResult
    /\ paymentPayload = NoPaymentPayload
    /\ useStoreCredit = "none"
    /\ loadedPaymentMethod = NoLoadedPaymentMethod
    /\ transactionReference = "none"
    /\ log = <<>>
    /\ result = "none"
    /\ entry = [boltClient |-> Undefined, boltEmbedded |-> Undefined,
                embeddedField |-> Undefined, useBoltClient |-> JsFalse,
                useBoltEmbedded |-> JsFalse]
    /\ lifecycle = "uninitialized"

(***************************************************************************)
(* Bookkeeping shared by the calls.                                        *)
(***************************************************************************)
\* a public method is entered: nothing of the previous call is left
Enter(method) ==
    /\ pc = "idle"
    /\ op' = method
    /\ entry' = Fields

ResetLocals ==
    /\ handler' = "none"
    /\ transaction' = NoTransaction
    /\ fired' = <<>>
    /\ completions' = 0
    /\ tokenizeResult' = NoTokenizeResult
    /\ paymentPayload' = NoPaymentPayload
    /\ useStoreCredit' = "none"
    /\ loadedPaymentMethod' = NoLoadedPaymentMethod
    /\ transactionReference' = "none"

\* the call fails with error e
Throw(e) ==
    /\ pc' = "idle"
    /\ result' = e

\* the call resolves with the store's state
Return ==
    /\ pc' = "idle"
    /\ result' = "resolved"

\* the call suspends at an await
Await(label) ==
    /\ pc' = label
    /\ result' = "pending"

\* a request the call makes of a collaborator
Request(name) == [request |-> name, outcome |-> "requested"]

\* the log once the dispatch the call awaits has settled
Settled(dispatch, ok) ==
    Append(log, [request |-> dispatch,
                 outcome |-> IF ok THEN "resolved" ELSE "rejected"])

(***************************************************************************)
(* initialize (lines 32-69)                                                *)
(***************************************************************************)
\* line 39: bolt?.useBigCommerceCheckout
BoltUseBigCommerceCheckout(o) ==
    IF o.hasBolt THEN o.useBigCommerceCheckout ELSE Undefined

\* the check of line 35 made only when options.bolt is given
MethodIdMissingWithBoltOnly(o) == o.hasBolt /\ ~Truthy(o.methodId)

\* line 35: !methodId
MethodIdMissing(o) == ~Truthy(o.methodId)

\* the check of line 47 without its publishableKey half
PaymentMethodNotFound(pm) == ~pm.found

\* line 47: !paymentMethod || !publishableKey
PaymentMethodMissing(pm) == ~pm.found \/ ~Truthy(pm.publishableKey)

\* line 53
SelectUseBoltClient(useBigCommerceCheckout, embeddedOneClickEnabled) ==
    JsAnd(useBigCommerceCheckout, JsNot(embeddedOneClickEnabled))

\* line 54 without its embeddedOneClickEnabled operand
SelectUseBoltEmbeddedAlways(useBigCommerceCheckout, embeddedOneClickEnabled) ==
    useBigCommerceCheckout

\* line 54
SelectUseBoltEmbedded(useBigCommerceCheckout, embeddedOneClickEnabled) ==
    JsAnd(useBigCommerceCheckout, embeddedOneClickEnabled)

\* lines 32-51 and 64-65: up to the first await, the script loader's loadBoltClient
Initialize(o, pm) ==
    /\ Enter("initialize")
    /\ options' = o
    /\ payload' = NoPayload
    /\ ResetLocals
    /\ UNCHANGED <<fields, lifecycle>>
    /\ IF MethodIdMissing(o)
       THEN /\ Throw(InvalidArgumentMethodId)
            /\ paymentMethod' = NoPaymentMethod
            /\ log' = <<>>
       ELSE IF Truthy(BoltUseBigCommerceCheckout(o))
       THEN /\ paymentMethod' = pm
            /\ IF PaymentMethodMissing(pm)
               THEN /\ Throw(MissingPaymentMethod)
                    /\ log' = <<Request("getPaymentMethod")>>
               ELSE /\ Await("initialize_loadBoltClient")
                    /\ log' = <<Request("getPaymentMethod"), Request("loadBoltClient")>>
       ELSE /\ paymentMethod' = NoPaymentMethod
            /\ Await("initialize_loadBoltClient")
            /\ log' = <<Request("loadBoltClient")>>

\* lines 51-61 and 65-68: loadBoltClient has settled
InitializeBoltClientLoaded(loaded) ==
    /\ pc = "initialize_loadBoltClient"
    /\ UNCHANGED <<op, options, paymentMethod, payload, entry, locals,
                   boltEmbedded, embeddedField>>
    /\ IF ~loaded
       THEN /\ Throw(ScriptLoadFailed)
            /\ UNCHANGED <<boltClient, useBoltClient, useBoltEmbedded, log, lifecycle>>
       ELSE /\ boltClient' = "client"
            /\ IF Truthy(BoltUseBigCommerceCheckout(options))
               THEN /\ useBoltClient' =
                          SelectUseBoltClient(options.useBigCommerceCheckout,
                                              paymentMethod.embeddedOneClickEnabled)
                    /\ useBoltEmbedded' =
                          SelectUseBoltEmbedded(options.useBigCommerceCheckout,
                                                paymentMethod.embeddedOneClickEnabled)
                    /\ IF Truthy(useBoltEmbedded')
                       THEN IF ~Truthy(options.containerId)
                            THEN /\ Throw(InvalidArgumentContainerId)
                                 /\ UNCHANGED <<log, lifecycle>>
                            ELSE /\ Await("initialize_loadBoltEmbedded")
                                 /\ log' = Append(log, Request("loadBoltEmbedded"))
                                 /\ UNCHANGED lifecycle
                       ELSE /\ Return
                            /\ lifecycle' = "initialized"
                            /\ UNCHANGED log
               ELSE /\ Return
                    /\ lifecycle' = "initialized"
                    /\ UNCHANGED <<useBoltClient, useBoltEmbedded, log>>

\* the step of lines 61-62 with a _mountBoltEmbeddedField that does not keep the field
InitializeBoltEmbeddedLoadedFieldDropped(loaded) ==
    /\ pc = "initialize_loadBoltEmbedded"
    /\ UNCHANGED <<op, options, paymentMethod, payload, entry, locals,
                   boltClient, useBoltClient, useBoltEmbedded>>
    /\ IF ~loaded
       THEN /\ Throw(ScriptLoadFailed)
            /\ UNCHANGED <<boltEmbedded, embeddedField, log, lifecycle>>
       ELSE /\ boltEmbedded' = "embedded"
            /\ UNCHANGED embeddedField
            /\ log' = log \o <<Request("create"), Request("mount")>>
            /\ Return
            /\ lifecycle' = "initialized"

\* lines 61-62, 68 and 270-277: loadBoltEmbedded has settled; the field is mounted
InitializeBoltEmbeddedLoaded(loaded) ==
    /\ pc = "initialize_loadBoltEmbedded"
    /\ UNCHANGED <<op, options, paymentMethod, payload, entry, locals,
                   boltClient, useBoltClient, useBoltEmbedded>>
    /\ IF ~loaded
       THEN /\ Throw(ScriptLoadFailed)
            /\ UNCHANGED <<boltEmbedded, embeddedField, log, lifecycle>>
       ELSE /\ boltEmbedded' = "embedded"
            /\ embeddedField' = options.containerId
            /\ log' = log \o <<Request("create"), Request("mount")>>
            /\ Return
            /\ lifecycle' = "initialized"

(***************************************************************************)
(* deinitialize (lines 71-76) and finalize (lines 78-80)                   *)
(***************************************************************************)
\* deinitialize that forgets _boltEmbedded
DeinitializeClientOnly ==
    /\ Enter("deinitialize")
    /\ boltClient' = Undefined
    /\ UNCHANGED <<boltEmbedded, embeddedField, useBoltClient, useBoltEmbedded>>
    /\ Return
    /\ log' = <<>>
    /\ lifecycle' = IF lifecycle = "uninitialized" THEN lifecycle ELSE "deinitialized"
    /\ ResetLocals
    /\ options' = NoOptions
    /\ paymentMethod' = NoPaymentMethod
    /\ payload' = NoPayload

Deinitialize ==
    /\ Enter("deinitialize")
    /\ boltClient' = Undefined
    /\ boltEmbedded' = Undefined
    /\ UNCHANGED <<embeddedField, useBoltClient, useBoltEmbedded>>
    /\ Return
    /\ log' = <<>>
    /\ lifecycle' = IF lifecycle = "uninitialized" THEN lifecycle ELSE "deinitialized"
    /\ ResetLocals
    /\ options' = NoOptions
    /\ paymentMethod' = NoPaymentMethod
    /\ payload' = NoPayload

\* finalize that rejects only while a client is loaded
FinalizeWhenInitialized ==
    /\ Enter("finalize")
    /\ IF Truthy(boltClient) THEN Throw(OrderFinalizationNotRequired) ELSE Return
    /\ log' = <<>>
    /\ ResetLocals
    /\ options' = NoOptions
    /\ paymentMethod' = NoPaymentMethod
    /\ payload' = NoPayload
    /\ UNCHANGED <<fields, lifecycle>>

Finalize ==
    /\ Enter("finalize")
    /\ Throw(OrderFinalizationNotRequired)
    /\ log' = <<>>
    /\ ResetLocals
    /\ options' = NoOptions
    /\ paymentMethod' = NoPaymentMethod
    /\ payload' = NoPayload
    /\ UNCHANGED <<fields, lifecycle>>

(***************************************************************************)
(* Strings and numbers of the tokenize result.  A string is a sequence of  *)
(* characters; a number is a record that says whether it is NaN.           *)
(***************************************************************************)
Digits == {"0", "1", "2", "3", "4", "5", "6", "7", "8", "9"}

DigitValue(c) ==
    CASE c = "0" -> 0 [] c = "1" -> 1 [] c = "2" -> 2 [] c = "3" -> 3
      [] c = "4" -> 4 [] c = "5" -> 5 [] c = "6" -> 6 [] c = "7" -> 7
      [] c = "8" -> 8 [] c = "9" -> 9

NaN == [nan |-> TRUE, value |-> 0]
Number(n) == [nan |-> FALSE, value |-> n]

IsDigits(s) == Len(s) > 0 /\ \A i \in 1..Len(s) : s[i] \in Digits

RECURSIVE DecimalValue(_)
DecimalValue(s) ==
    IF s = <<>> THEN 0
    ELSE 10 * DecimalValue(SubSeq(s, 1, Len(s) - 1)) + DigitValue(s[Len(s)])

\* unary plus on a string made of digits, "-" and letters (lines 192-195, 281-284):
\* the empty string is 0, an optionally signed run of digits is its value,
\* anything else is NaN
ToNumber(s) ==
    IF s = <<>> THEN Number(0)
    ELSE IF IsDigits(s) THEN Number(DecimalValue(s))
    ELSE IF Head(s) = "-" /\ IsDigits(Tail(s)) THEN Number(0 - DecimalValue(Tail(s)))
    ELSE NaN

\* s.split('-')
RECURSIVE Split(_)
Split(s) ==
    IF \A i \in 1..Len(s) : s[i] # "-" THEN <<s>>
    ELSE LET k == CHOOSE i \in 1..Len(s) :
                      s[i] = "-" /\ \A j \in 1..(i - 1) : s[j] # "-"
         IN <<SubSeq(s, 1, k - 1)>> \o Split(SubSeq(s, k + 1, Len(s)))

\* +parts[i] with parts indexed from 0: a missing part is undefined, and +undefined is NaN
NumberOfPart(parts, i) ==
    IF i + 1 > Len(parts) THEN NaN ELSE ToNumber(parts[i + 1])

\* line 283 reading the part of line 284
ExpirationMonthFromFirstPart(expiration) == NumberOfPart(Split(expiration), 0)

\* lines 283 and 194
ExpirationMonth(expiration) == NumberOfPart(Split(expiration), 1)

\* lines 284 and 195
ExpirationYear(expiration) == NumberOfPart(Split(expiration), 0)

\* lines 279-295: _validateTokenizeResult does not throw
ValidTokenizeResult(r) ==
    ~ ( \/ r.token = <<>>
        \/ ToNumber(r.last4).nan
        \/ ToNumber(r.bin).nan
        \/ ExpirationMonth(r.expiration).nan
        \/ ExpirationYear(r.expiration).nan )

Tokens == {<<>>, <<"t">>}
Last4s == {<<"4", "2", "4", "2">>, <<>>, <<"4", "a">>}
Bins == {<<"4", "1", "1", "1", "1", "1">>, <<"a">>}
Expirations ==
    {<<"2", "0", "2", "5", "-", "0", "9">>, <<"2", "0", "2", "5">>, <<"-">>,
     <<"2", "0", "2", "5", "-", "0", "a">>, <<"a", "-", "0", "9">>}

\* what awaiting this._embeddedField?.tokenize() gives: nothing, an Error value or
\* a BoltEmbeddedTokenize
TokenizeResults ==
    [kind : {"result"}, token : Tokens, last4 : Last4s, bin : Bins,
     expiration : Expirations]
    \cup
    {[kind |-> k, token |-> <<>>, last4 |-> <<>>, bin |-> <<>>, expiration |-> <<>>] :
        k \in {"undefined", "error"}}

\* the checkout of the store's state at line 111 (found = FALSE: getCheckoutOrThrow throws)
Checkouts ==
    [found : {TRUE}, isStoreCreditApplied : JsOptBool]
    \cup
    [found : {FALSE}, isStoreCreditApplied : {Undefined}]

\* the payment method of the store's state at line 118
LoadedPaymentMethods ==
    [found : {TRUE}, clientToken : {Undefined, "", "token"}]
    \cup
    [found : {FALSE}, clientToken : {Undefined}]

\* transaction.reference handed to the success callback
References == {"ref1", "ref2"}

\* what boltClient.getTransactionReference() resolves with
TransactionReferences == {Undefined, "", "ref1"}

(***************************************************************************)
(* execute (lines 82-92)                                                   *)
(***************************************************************************)
\* lines 83-91: the handler the flags select
ExecuteHandler(useClient, useEmbedded) ==
    IF Truthy(useClient) THEN "executeWithBoltClient"
    ELSE IF Truthy(useEmbedded) THEN "executeWithBoltEmbedded"
    ELSE "executeWithBoltFullCheckout"

\* lines 105, 168, 219: !payment
PaymentMissing(p) == ~p.hasPayment

\* lines 101-109: _executeWithBoltClient up to its first await
ExecuteWithBoltClient(p) ==
    IF ~Truthy(boltClient)
    THEN Throw(NotInitialized) /\ log' = <<>>
    ELSE IF PaymentMissing(p)
    THEN Throw(PaymentArgumentInvalidPayment) /\ log' = <<>>
    ELSE Await("client_submitOrder") /\ log' = <<Request("submitOrder")>>

\* _executeWithBoltEmbedded that tokenizes before it looks at the payment
ExecuteWithBoltEmbeddedTokenizeFirst(p) ==
    /\ Await("embedded_tokenize")
    /\ log' = IF Truthy(embeddedField) THEN <<Request("tokenize")>> ELSE <<>>

\* lines 165-172: _executeWithBoltEmbedded up to its first await
ExecuteWithBoltEmbedded(p) ==
    IF PaymentMissing(p)
    THEN Throw(PaymentArgumentInvalidPayment) /\ log' = <<>>
    ELSE /\ Await("embedded_tokenize")
         /\ log' = IF Truthy(embeddedField) THEN <<Request("tokenize")>> ELSE <<>>

\* lines 215-233: _executeWithBoltFullCheckout up to its first await
ExecuteWithBoltFullCheckout(p) ==
    IF ~Truthy(boltClient)
    THEN Throw(NotInitialized) /\ log' = <<>>
    ELSE IF PaymentMissing(p)
    THEN Throw(PaymentArgumentInvalidPayment) /\ log' = <<>>
    ELSE IF ~Truthy(p.methodId)
    THEN Throw(MissingPaymentMethod) /\ log' = <<>>
    ELSE IF ~p.hasPaymentData
    THEN Throw(MissingPayment) /\ log' = <<>>
    ELSE Await("full_submitOrder") /\ log' = <<Request("submitOrder")>>

Execute(p) ==
    /\ Enter("execute")
    /\ payload' = p
    /\ options' = NoOptions
    /\ paymentMethod' = NoPaymentMethod
    /\ handler' = ExecuteHandler(useBoltClient, useBoltEmbedded)
    /\ transaction' = NoTransaction
    /\ fired' = <<>>
    /\ completions' = 0
    /\ tokenizeResult' = NoTokenizeResult
    /\ paymentPayload' = NoPaymentPayload
    /\ useStoreCredit' = "none"
    /\ loadedPaymentMethod' = NoLoadedPaymentMethod
    /\ transactionReference' = "none"
    /\ UNCHANGED <<fields, lifecycle>>
    /\ CASE handler' = "executeWithBoltClient" -> ExecuteWithBoltClient(p)
         [] handler' = "executeWithBoltEmbedded" -> ExecuteWithBoltEmbedded(p)
         [] OTHER -> ExecuteWithBoltFullCheckout(p)

\* what a step of a suspended execute leaves alone
ExecuteFrame ==
    UNCHANGED <<fields, op, options, paymentMethod, payload, handler, entry, lifecycle>>

(***************************************************************************)
(* _executeWithBoltClient (lines 101-155)                                  *)
(***************************************************************************)
\* the step of lines 109-117 with line 113 testing the flag for truth
ClientOrderSubmittedCreditIfTrue(ok, checkout) ==
    /\ pc = "client_submitOrder"
    /\ ExecuteFrame
    /\ useStoreCredit' = IF ok /\ checkout.found THEN checkout.isStoreCreditApplied
                          ELSE useStoreCredit
    /\ UNCHANGED <<loadedPaymentMethod, transactionReference>>
    /\ UNCHANGED <<transaction, fired, completions, tokenizeResult, paymentPayload>>
    /\ IF ~ok THEN Throw(RequestFailed) /\ log' = Settled("submitOrder", ok)
       ELSE IF ~checkout.found
       THEN Throw(MissingCheckout) /\ log' = Settled("submitOrder", ok)
       ELSE IF Truthy(checkout.isStoreCreditApplied)
       THEN /\ Await("client_applyStoreCredit")
            /\ log' = Append(Settled("submitOrder", ok), Request("applyStoreCredit"))
       ELSE /\ Await("client_loadPaymentMethod")
            /\ log' = Append(Settled("submitOrder", ok), Request("loadPaymentMethod"))

\* lines 109-117: submitOrder has settled
ClientOrderSubmitted(ok, checkout) ==
    /\ pc = "client_submitOrder"
    /\ ExecuteFrame
    /\ useStoreCredit' = IF ok /\ checkout.found THEN checkout.isStoreCreditApplied
                          ELSE useStoreCredit
    /\ UNCHANGED <<loadedPaymentMethod, transactionReference>>
    /\ UNCHANGED <<transaction, fired, completions, tokenizeResult, paymentPayload>>
    /\ IF ~ok THEN Throw(RequestFailed) /\ log' = Settled("submitOrder", ok)
       ELSE IF ~checkout.found
       THEN Throw(MissingCheckout) /\ log' = Settled("submitOrder", ok)
       ELSE IF checkout.isStoreCreditApplied # Undefined
       THEN /\ Await("client_applyStoreCredit")
            /\ log' = Append(Settled("submitOrder", ok), Request("applyStoreCredit"))
       ELSE /\ Await("client_loadPaymentMethod")
            /\ log' = Append(Settled("submitOrder", ok), Request("loadPaymentMethod"))

\* lines 114-117: applyStoreCredit has settled
ClientStoreCreditApplied(ok) ==
    /\ pc = "client_applyStoreCredit"
    /\ ExecuteFrame
    /\ UNCHANGED reads
    /\ UNCHANGED <<transaction, fired, completions, tokenizeResult, paymentPayload>>
    /\ IF ~ok THEN Throw(RequestFailed) /\ log' = Settled("applyStoreCredit", ok)
       ELSE /\ Await("client_loadPaymentMethod")
            /\ log' = Append(Settled("applyStoreCredit", ok), Request("loadPaymentMethod"))

\* lines 117-142: loadPaymentMethod has settled; the provider UI is configured and opened
ClientPaymentMethodLoaded(ok, pm) ==
    /\ pc = "client_loadPaymentMethod"
    /\ ExecuteFrame
    /\ loadedPaymentMethod' =
           IF ok THEN [state |-> "loaded", found |-> pm.found, clientToken |-> pm.clientToken]
           ELSE loadedPaymentMethod
    /\ UNCHANGED <<useStoreCredit, transactionReference>>
    /\ UNCHANGED <<fired, completions, tokenizeResult, paymentPayload>>
    /\ log' = IF ok /\ pm.found /\ Truthy(pm.clientToken)
               THEN Settled("loadPaymentMethod", ok)
                        \o <<Request("configure"), Request("open")>>
               ELSE Settled("loadPaymentMethod", ok)
    /\ IF ~ok THEN Throw(RequestFailed) /\ UNCHANGED transaction
       ELSE IF ~pm.found \/ ~Truthy(pm.clientToken)
       THEN Throw(MissingPaymentMethod) /\ UNCHANGED transaction
       ELSE /\ Await("client_transaction")
            /\ transaction' = [state |-> "pending", reference |-> Undefined]

\* a promise settles once: resolve and reject do nothing on a settled promise
Resolve(promise, reference) ==
    IF promise.state = "pending"
    THEN [state |-> "resolved", reference |-> reference]
    ELSE promise

\* an onClose that does not reject
RejectDropped(promise) == promise

Reject(promise) ==
    IF promise.state = "pending"
    THEN [state |-> "rejected", reference |-> Undefined]
    ELSE promise

\* lines 127-130: the provider calls the success callback of an opened UI
OnSuccess(reference) ==
    /\ transaction.state # "none"
    /\ Len(fired) < MaxCallbacks
    /\ fired' = Append(fired, [callback |-> "success", reference |-> reference])
    /\ transaction' = Resolve(transaction, reference)
    /\ completions' = completions + 1
    /\ UNCHANGED <<fields, pc, op, options, paymentMethod, payload, handler,
                   tokenizeResult, paymentPayload, reads, log, result, entry, lifecycle>>

\* lines 132-134: the provider calls the close callback of an opened UI
OnClose ==
    /\ transaction.state # "none"
    /\ Len(fired) < MaxCallbacks
    /\ fired' = Append(fired, [callback |-> "close", reference |-> Undefined])
    /\ transaction' = Reject(transaction)
    /\ UNCHANGED <<fields, pc, op, options, paymentMethod, payload, handler, completions,
                   tokenizeResult, paymentPayload, reads, log, result, entry, lifecycle>>

\* lines 126 and 144-154: the awaited promise has settled
ClientTransactionSettled ==
    /\ pc = "client_transaction"
    /\ transaction.state \in {"resolved", "rejected"}
    /\ ExecuteFrame
    /\ UNCHANGED reads
    /\ UNCHANGED <<transaction, fired, completions, tokenizeResult>>
    /\ IF transaction.state = "rejected"
       THEN Throw(PaymentMethodCancelled) /\ UNCHANGED <<log, paymentPayload>>
       ELSE IF ~payload.hasPaymentData
       THEN Throw(TypeError) /\ UNCHANGED <<log, paymentPayload>>
       ELSE /\ Await("client_submitPayment")
            /\ log' = Append(log, Request("submitPayment"))
            /\ paymentPayload' =
                   [kind |-> "nonce", methodId |-> payload.methodId,
                    nonce |-> transaction.reference,
                    shouldSaveInstrument |-> payload.shouldSaveInstrument]

\* line 154: submitPayment has settled
ClientPaymentSubmitted(ok) ==
    /\ pc = "client_submitPayment"
    /\ ExecuteFrame
    /\ UNCHANGED reads
    /\ UNCHANGED <<transaction, fired, completions, tokenizeResult, paymentPayload>>
    /\ log' = Settled("submitPayment", ok)
    /\ IF ok THEN Return ELSE Throw(RequestFailed)

(***************************************************************************)
(* _executeWithBoltEmbedded (lines 165-206)                                *)
(***************************************************************************)
\* the step of lines 172-184 without the call of _validateTokenizeResult
EmbeddedTokenizedUnvalidated(r) ==
    /\ pc = "embedded_tokenize"
    /\ ~Truthy(embeddedField) => r.kind = "undefined"
    /\ ExecuteFrame
    /\ UNCHANGED reads
    /\ UNCHANGED <<transaction, fired, completions, paymentPayload>>
    /\ tokenizeResult' = r
    /\ IF r.kind = "undefined" THEN Throw(PaymentMethodInvalid) /\ UNCHANGED log
       ELSE IF r.kind = "error" THEN Throw(TokenizeFailed) /\ UNCHANGED log
       ELSE Await("embedded_submitOrder") /\ log' = Append(log, Request("submitOrder"))

\* lines 172-184: tokenize has settled (with nothing when there is no field)
EmbeddedTokenized(r) ==
    /\ pc = "embedded_tokenize"
    /\ ~Truthy(embeddedField) => r.kind = "undefined"
    /\ ExecuteFrame
    /\ UNCHANGED reads
    /\ UNCHANGED <<transaction, fired, completions, paymentPayload>>
    /\ tokenizeResult' = r
    /\ IF r.kind = "undefined" THEN Throw(PaymentMethodInvalid) /\ UNCHANGED log
       ELSE IF r.kind = "error" THEN Throw(TokenizeFailed) /\ UNCHANGED log
       ELSE IF ~ValidTokenizeResult(r) THEN Throw(PaymentArgumentInvalid) /\ UNCHANGED log
       ELSE Await("embedded_submitOrder") /\ log' = Append(log, Request("submitOrder"))

\* lines 184-205: submitOrder has settled
EmbeddedOrderSubmitted(ok) ==
    /\ pc = "embedded_submitOrder"
    /\ ExecuteFrame
    /\ UNCHANGED reads
    /\ UNCHANGED <<transaction, fired, completions, tokenizeResult>>
    /\ IF ~ok
       THEN Throw(RequestFailed) /\ log' = Settled("submitOrder", ok)
                                 /\ UNCHANGED paymentPayload
       ELSE /\ Await("embedded_submitPayment")
            /\ log' = Append(Settled("submitOrder", ok), Request("submitPayment"))
            /\ paymentPayload' =
                   [kind |-> "credit_card_token", methodId |-> payload.methodId,
                    token |-> tokenizeResult.token,
                    last_four_digits |-> ToNumber(tokenizeResult.last4),
                    iin |-> ToNumber(tokenizeResult.bin),
                    expiration_month |-> ExpirationMonth(tokenizeResult.expiration),
                    expiration_year |-> ExpirationYear(tokenizeResult.expiration),
                    create_account |-> FALSE,
                    embedded_checkout |-> TRUE]

\* line 205: submitPayment has settled
EmbeddedPaymentSubmitted(ok) ==
    /\ pc = "embedded_submitPayment"
    /\ ExecuteFrame
    /\ UNCHANGED reads
    /\ UNCHANGED <<transaction, fired, completions, tokenizeResult, paymentPayload>>
    /\ log' = Settled("submitPayment", ok)
    /\ IF ok THEN Return ELSE Throw(RequestFailed)

(***************************************************************************)
(* _executeWithBoltFullCheckout (lines 215-248)                            *)
(***************************************************************************)
\* the step of lines 233-235 going on although submitOrder was rejected
FullOrderSubmittedIgnoringFailure(ok) ==
    /\ pc = "full_submitOrder"
    /\ ExecuteFrame
    /\ UNCHANGED reads
    /\ UNCHANGED <<transaction, fired, completions, tokenizeResult, paymentPayload>>
    /\ Await("full_getTransactionReference")
    /\ log' = Append(Settled("submitOrder", ok), Request("getTransactionReference"))

\* lines 233-235: submitOrder has settled
FullOrderSubmitted(ok) ==
    /\ pc = "full_submitOrder"
    /\ ExecuteFrame
    /\ UNCHANGED reads
    /\ UNCHANGED <<transaction, fired, completions, tokenizeResult, paymentPayload>>
    /\ IF ~ok THEN Throw(RequestFailed) /\ log' = Settled("submitOrder", ok)
       ELSE /\ Await("full_getTransactionReference")
            /\ log' = Append(Settled("submitOrder", ok),
                              Request("getTransactionReference"))

\* the step of lines 235-247 without the check of lines 237-239
FullTransactionReferenceUnchecked(ok, reference) ==
    /\ pc = "full_getTransactionReference"
    /\ ExecuteFrame
    /\ transactionReference' = IF ok THEN reference ELSE transactionReference
    /\ UNCHANGED <<useStoreCredit, loadedPaymentMethod>>
    /\ UNCHANGED <<transaction, fired, completions, tokenizeResult>>
    /\ IF ~ok THEN Throw(RequestFailed) /\ UNCHANGED <<log, paymentPayload>>
       ELSE /\ Await("full_submitPayment")
            /\ log' = Append(log, Request("submitPayment"))
            /\ paymentPayload' =
                   [kind |-> "paymentData", methodId |-> payload.methodId,
                    nonce |-> reference,
                    shouldSaveInstrument |-> payload.shouldSaveInstrument]

\* lines 235-247: getTransactionReference has settled
FullTransactionReference(ok, reference) ==
    /\ pc = "full_getTransactionReference"
    /\ ExecuteFrame
    /\ transactionReference' = IF ok THEN reference ELSE transactionReference
    /\ UNCHANGED <<useStoreCredit, loadedPaymentMethod>>
    /\ UNCHANGED <<transaction, fired, completions, tokenizeResult>>
    /\ IF ~ok THEN Throw(RequestFailed) /\ UNCHANGED <<log, paymentPayload>>
       ELSE IF ~Truthy(reference)
       THEN Throw(PaymentMethodInvalid) /\ UNCHANGED <<log, paymentPayload>>
       ELSE /\ Await("full_submitPayment")
            /\ log' = Append(log, Request("submitPayment"))
            /\ paymentPayload' =
                   [kind |-> "paymentData", methodId |-> payload.methodId,
                    nonce |-> reference,
                    shouldSaveInstrument |-> payload.shouldSaveInstrument]

\* lines 241-247: submitPayment has settled
FullPaymentSubmitted(ok) ==
    /\ pc = "full_submitPayment"
    /\ ExecuteFrame
    /\ UNCHANGED reads
    /\ UNCHANGED <<transaction, fired, completions, tokenizeResult, paymentPayload>>
    /\ log' = Settled("submitPayment", ok)
    /\ IF ok THEN Return ELSE Throw(RequestFailed)

(***************************************************************************)
(* Vocabulary of the properties.                                           *)
(***************************************************************************)
\* the execution mode the two flags stand for
Mode ==
    IF Truthy(useBoltClient) /\ Truthy(useBoltEmbedded) THEN "inconsistent"
    ELSE IF Truthy(useBoltClient) THEN "BoltClientOnly"
    ELSE IF Truthy(useBoltEmbedded) THEN "BoltEmbedded"
    ELSE "FullCheckout"

\* the execution mode a configuration asks for
ConfiguredMode(o, pm) ==
    IF ~o.hasBolt \/ o.useBigCommerceCheckout # JsTrue THEN "FullCheckout"
    ELSE IF pm.embeddedOneClickEnabled = JsTrue THEN "BoltEmbedded"
    ELSE "BoltClientOnly"

HandlerOfMode(m) ==
    CASE m = "BoltClientOnly" -> "executeWithBoltClient"
      [] m = "BoltEmbedded" -> "executeWithBoltEmbedded"
      [] m = "FullCheckout" -> "executeWithBoltFullCheckout"
      [] OTHER -> "none"

\* how often the call in flight (or the last call) has made the request
Requests(name) == Cardinality({i \in 1..Len(log) : log[i] = Request(name)})

\* the last call was one of the method that has settled
Settles(method) == op = method /\ pc = "idle"

FieldsAsOnEntry == Fields = entry

\* the request is in the log, and before position i
RequestedBefore(name, i) == \E j \in 1..(i - 1) : log[j] = Request(name)

\* a tokenize result with a token whose four numbers are numbers
WellFormedCard(r) ==
    /\ r.token # <<>>
    /\ ~ToNumber(r.last4).nan
    /\ ~ToNumber(r.bin).nan
    /\ ~NumberOfPart(Split(r.expiration), 0).nan
    /\ ~NumberOfPart(Split(r.expiration), 1).nan

(***************************************************************************)
(* The properties.                                                         *)
(***************************************************************************)
\* C1: after every successful initialize the mode is the one that call's
\* configuration asks for, whatever preceded the call: FullCheckout (no flag set)
\* without bolt.useBigCommerceCheckout, BoltEmbedded with it and
\* embeddedOneClickEnabled, BoltClientOnly with it and without
\* embeddedOneClickEnabled; and the next execute dispatches to that mode's handler.
C1_ModeFollowsLastInitialize ==
    (Settles("initialize") /\ result = "resolved") =>
        /\ Mode = ConfiguredMode(options, paymentMethod)
        /\ ExecuteHandler(useBoltClient, useBoltEmbedded)
               = HandlerOfMode(ConfiguredMode(options, paymentMethod))

\* C2: _useBoltClient and _useBoltEmbedded are never both true, no execute
\* changes either flag, and an execute runs the one handler the flags select.
C2_FlagsExclusiveAndFixedDuringExecute ==
    /\ ~(Truthy(useBoltClient) /\ Truthy(useBoltEmbedded))
    /\ op = "execute" =>
          /\ useBoltClient = entry.useBoltClient
          /\ useBoltEmbedded = entry.useBoltEmbedded
          /\ handler = HandlerOfMode(Mode)
          /\ pc \in CASE handler = "executeWithBoltClient" ->
                          {"idle", "client_submitOrder", "client_applyStoreCredit",
                           "client_loadPaymentMethod", "client_transaction",
                           "client_submitPayment"}
                      [] handler = "executeWithBoltEmbedded" ->
                          {"idle", "embedded_tokenize", "embedded_submitOrder",
                           "embedded_submitPayment"}
                      [] OTHER ->
                          {"idle", "full_submitOrder", "full_getTransactionReference",
                           "full_submitPayment"}

\* an execute in BoltEmbedded mode, entered with the flags set, has resolved
C2_Witness ==
    /\ Settles("execute")
    /\ result = "resolved"
    /\ handler = "executeWithBoltEmbedded"
    /\ useBoltEmbedded = JsTrue

\* C3 (for a payload that carries a payment): after deinitialize and before the
\* next successful initialize, execute dispatches neither submit-order nor
\* submit-payment, and fails with the not-initialized error.
C3_ExecuteAfterDeinitializeNotInitialized ==
    (op = "execute" /\ lifecycle = "deinitialized" /\ payload.hasPayment) =>
        /\ Requests("submitOrder") = 0
        /\ Requests("submitPayment") = 0
        /\ pc = "idle" => result = NotInitialized

\* C4: in a mode reached by a successful initialize, execute without a payment
\* fails with the argument-invalid error naming 'payment' before any side effect.
C4_ExecuteWithoutPaymentFailsFirst ==
    (op = "execute" /\ lifecycle = "initialized" /\ ~payload.hasPayment) =>
        /\ pc = "idle"
        /\ result = PaymentArgumentInvalidPayment
        /\ log = <<>>
        /\ transaction = NoTransaction
        /\ fired = <<>>
        /\ tokenizeResult = NoTokenizeResult
        /\ paymentPayload = NoPaymentPayload
        /\ FieldsAsOnEntry

\* an execute without a payment has failed in BoltEmbedded mode, field mounted
C4_Witness ==
    /\ Settles("execute")
    /\ lifecycle = "initialized"
    /\ ~payload.hasPayment
    /\ handler = "executeWithBoltEmbedded"
    /\ embeddedField # Undefined
    /\ result = PaymentArgumentInvalidPayment

\* C5: initialize without methodId fails with the invalid-argument error
\* whatever the bolt options are, before any side effect: no script-loader call,
\* no store lookup, handles and flags as before the call.
C5_InitializeWithoutMethodIdFailsFirst ==
    (op = "initialize" /\ options.methodId = Undefined) =>
        /\ pc = "idle"
        /\ result = InvalidArgumentMethodId
        /\ log = <<>>
        /\ FieldsAsOnEntry

\* initialize without methodId, asking for the embedded mode, has failed on an
\* initialized strategy
C5_Witness ==
    /\ Settles("initialize")
    /\ options.methodId = Undefined
    /\ options.useBigCommerceCheckout = JsTrue
    /\ boltClient # Undefined
    /\ result = InvalidArgumentMethodId

\* C6: initialize with bolt.useBigCommerceCheckout true and a methodId whose
\* payment method is not in the store, or has no publishable key, fails with
\* missing-data (payment-method) before any script-loader call and with
\* handles and flags as before the call.
C6_InitializeWithoutPaymentMethodFailsFirst ==
    ( /\ op = "initialize"
      /\ options.methodId # Undefined
      /\ options.hasBolt
      /\ options.useBigCommerceCheckout = JsTrue
      /\ (~paymentMethod.found \/ paymentMethod.publishableKey = Undefined) ) =>
        /\ pc = "idle"
        /\ result = MissingPaymentMethod
        /\ Requests("loadBoltClient") = 0
        /\ Requests("loadBoltEmbedded") = 0
        /\ FieldsAsOnEntry

\* initialize has failed for a payment method that is in the store without a
\* publishable key
C6_Witness ==
    /\ Settles("initialize")
    /\ options.useBigCommerceCheckout = JsTrue
    /\ paymentMethod.found
    /\ paymentMethod.publishableKey = Undefined
    /\ result = MissingPaymentMethod

\* C7: deinitialize, in any state, leaves both client handles absent, leaves the
\* embedded field handle and both flags as they were, dispatches nothing, and a
\* second deinitialize right after the first changes nothing.
C7_DeinitializeClearsHandlesOnly ==
    [][ (pc = "idle" /\ op' = "deinitialize") =>
            /\ boltClient' = Undefined
            /\ boltEmbedded' = Undefined
            /\ embeddedField' = embeddedField
            /\ useBoltClient' = useBoltClient
            /\ useBoltEmbedded' = useBoltEmbedded
            /\ log' = <<>>
            /\ result' = "resolved"
            /\ op = "deinitialize" => fields' = fields ]_vars

\* deinitialize has run on a strategy initialized in BoltEmbedded mode
C7_Witness ==
    /\ Settles("deinitialize")
    /\ entry.boltClient # Undefined
    /\ entry.boltEmbedded # Undefined
    /\ boltEmbedded = Undefined
    /\ embeddedField # Undefined

\* C8: finalize fails with the order-finalization-not-required error in every
\* state, leaves handles and flags as they were and dispatches nothing.
C8_FinalizeAlwaysFails ==
    op = "finalize" =>
        /\ pc = "idle"
        /\ result = OrderFinalizationNotRequired
        /\ log = <<>>
        /\ FieldsAsOnEntry

\* finalize has failed on a deinitialized strategy
C8_Witness ==
    /\ Settles("finalize")
    /\ lifecycle = "deinitialized"
    /\ result = OrderFinalizationNotRequired

\* C9: in a BoltClientOnly execute whose provider UI is open, the first provider
\* callback decides and no later one changes it: no submit-payment before a
\* callback; success first gives exactly one submit-payment with nonce = the
\* transaction reference and shouldSaveInstrument from the request, and the
\* completion callback is invoked; close first gives payment-method-cancelled
\* and no submit-payment, even if success fires afterwards.
C9_FirstCallbackDecides ==
    (op = "execute" /\ handler = "executeWithBoltClient" /\ transaction.state # "none") =>
        /\ fired = <<>> =>
              /\ pc = "client_transaction"
              /\ result = "pending"
              /\ Requests("submitPayment") = 0
        /\ (fired # <<>> /\ fired[1].callback = "close") =>
              /\ Requests("submitPayment") = 0
              /\ pc \in {"client_transaction", "idle"}
              /\ pc = "idle" => result = PaymentMethodCancelled
        /\ (fired # <<>> /\ fired[1].callback = "success") =>
              /\ completions >= 1
              /\ pc \in {"client_transaction", "client_submitPayment", "idle"}
              /\ pc # "client_transaction" =>
                    /\ Requests("submitPayment") = 1
                    /\ paymentPayload.kind = "nonce"
                    /\ paymentPayload.nonce = fired[1].reference
                    /\ paymentPayload.shouldSaveInstrument = payload.shouldSaveInstrument
                    /\ paymentPayload.methodId = payload.methodId
              /\ pc = "idle" => result \in {"resolved", RequestFailed}

\* C9 holds of every request that carries paymentData
C9_FirstCallbackDecidesWithPaymentData ==
    payload.hasPaymentData => C9_FirstCallbackDecides

\* C10: an execute dispatches submit-order at most once and submit-payment at
\* most once, submit-payment only after its own submit-order has resolved; when
\* submit-order or a step between the two fails no submit-payment is dispatched,
\* and nothing is requested after a failure.
C10_OrderThenPaymentAtMostOnce ==
    op = "execute" =>
        /\ Requests("submitOrder") <= 1
        /\ Requests("submitPayment") <= 1
        /\ \A i \in 1..Len(log) :
              /\ log[i] = Request("submitPayment") =>
                    \E j \in 1..(i - 1) :
                        log[j] = [request |-> "submitOrder", outcome |-> "resolved"]
              /\ log[i].outcome = "rejected" =>
                    /\ i = Len(log)
                    /\ pc = "idle"
                    /\ result = RequestFailed
        /\ (pc = "idle" /\ result # "resolved" /\ Requests("submitPayment") = 1) =>
              log[Len(log)] = [request |-> "submitPayment", outcome |-> "rejected"]
        /\ (pc = "idle" /\ result = "resolved") =>
              /\ Requests("submitOrder") = 1
              /\ Requests("submitPayment") = 1

\* an execute has failed after its submit-order resolved and before submit-payment
C10_Witness ==
    /\ Settles("execute")
    /\ result \notin {"resolved", RequestFailed}
    /\ \E j \in 1..Len(log) : log[j] = [request |-> "submitOrder", outcome |-> "resolved"]
    /\ Requests("submitPayment") = 0

\* C11: a BoltEmbedded execute with a payment dispatches submit-order only after
\* tokenize returned a result that is present, is no error value and passes
\* validation; without a result (also when no field was mounted) it fails with
\* payment-method-invalid, an error value is propagated, an invalid result
\* fails with argument-invalid, and none of the three dispatches submit-order
\* or submit-payment.
C11_EmbeddedOrderOnlyAfterValidToken ==
    (op = "execute" /\ handler = "executeWithBoltEmbedded" /\ payload.hasPayment) =>
        /\ \A i \in 1..Len(log) :
              log[i] = Request("submitOrder") =>
                  /\ RequestedBefore("tokenize", i)
                  /\ tokenizeResult.kind = "result"
                  /\ WellFormedCard(tokenizeResult)
        /\ entry.embeddedField = Undefined =>
              /\ Requests("tokenize") = 0
              /\ tokenizeResult.kind \in {"none", "undefined"}
        /\ tokenizeResult.kind = "none" => (pc = "embedded_tokenize" /\ result = "pending")
        /\ tokenizeResult.kind = "undefined" =>
              (pc = "idle" /\ result = PaymentMethodInvalid)
        /\ tokenizeResult.kind = "error" => (pc = "idle" /\ result = TokenizeFailed)
        /\ (tokenizeResult.kind = "result" /\ ~WellFormedCard(tokenizeResult)) =>
              (pc = "idle" /\ result = PaymentArgumentInvalid)
        /\ ( \/ tokenizeResult.kind \in {"none", "undefined", "error"}
             \/ (tokenizeResult.kind = "result" /\ ~WellFormedCard(tokenizeResult)) ) =>
              /\ Requests("submitOrder") = 0
              /\ Requests("submitPayment") = 0

\* a BoltEmbedded execute has failed on a tokenize result that has a token and
\* does not pass validation
C11_Witness ==
    /\ Settles("execute")
    /\ handler = "executeWithBoltEmbedded"
    /\ payload.hasPayment
    /\ tokenizeResult.kind = "result"
    /\ tokenizeResult.token # <<>>
    /\ result = PaymentArgumentInvalid

\* C12: an initialize that fails, for whatever reason, leaves the client
\* handles, the embedded field handle and both flags as they were before the
\* call; a failure for a missing containerId does not leave a loaded client in
\* BoltEmbedded mode.
C12_FailedInitializeChangesNothing ==
    (Settles("initialize") /\ result # "resolved") => FieldsAsOnEntry

\* C13: right after a successful initialize the handles of the mode that call
\* selected are present: _boltClient always; for a BoltEmbedded initialize also
\* _boltEmbedded and the field handle, the field created and mounted into the
\* call's container exactly once; a FullCheckout or BoltClientOnly initialize
\* loads no embedded client and creates no field.
C13_InitializeLoadsHandlesOfMode ==
    (Settles("initialize") /\ result = "resolved") =>
        /\ boltClient # Undefined
        /\ Requests("loadBoltClient") = 1
        /\ ConfiguredMode(options, paymentMethod) = "BoltEmbedded" =>
              /\ boltEmbedded # Undefined
              /\ options.containerId # Undefined
              /\ embeddedField = options.containerId
              /\ Requests("loadBoltEmbedded") = 1
              /\ Requests("create") = 1
              /\ Requests("mount") = 1
              /\ RequestedBefore("loadBoltClient", Len(log))
        /\ ConfiguredMode(options, paymentMethod) # "BoltEmbedded" =>
              /\ Requests("loadBoltEmbedded") = 0
              /\ Requests("create") = 0
              /\ Requests("mount") = 0
              /\ boltEmbedded = entry.boltEmbedded
              /\ embeddedField = entry.embeddedField

\* a BoltEmbedded initialize has succeeded on a strategy that had no field
C13_Witness ==
    /\ Settles("initialize")
    /\ result = "resolved"
    /\ ConfiguredMode(options, paymentMethod) = "BoltEmbedded"
    /\ entry.embeddedField = Undefined
    /\ embeddedField # Undefined
    /\ Requests("mount") = 1

\* C14: a FullCheckout execute with a payment, the client loaded: without
\* payment.methodId it fails with missing-data (payment-method), with methodId
\* and without payment.paymentData with missing-data (payment), both before
\* submit-order; otherwise the order is submitted first and then the reference
\* is requested; an empty reference fails with payment-method-invalid, the
\* order submitted and no submit-payment dispatched; a non-empty one gives one
\* submit-payment with the request's methodId and paymentData and nonce = the
\* reference.
C14_FullCheckoutChecksOrderReferencePayment ==
    ( /\ op = "execute"
      /\ handler = "executeWithBoltFullCheckout"
      /\ payload.hasPayment
      /\ entry.boltClient # Undefined ) =>
        /\ payload.methodId = Undefined =>
              (pc = "idle" /\ result = MissingPaymentMethod /\ log = <<>>)
        /\ (payload.methodId # Undefined /\ ~payload.hasPaymentData) =>
              (pc = "idle" /\ result = MissingPayment /\ log = <<>>)
        /\ (payload.methodId # Undefined /\ payload.hasPaymentData) =>
              /\ Len(log) >= 1
              /\ log[1] = Request("submitOrder")
              /\ \A i \in 1..Len(log) :
                    log[i] = Request("getTransactionReference") =>
                        /\ i = 3
                        /\ log[2] = [request |-> "submitOrder", outcome |-> "resolved"]
              /\ transactionReference # "none" => Requests("getTransactionReference") = 1
              /\ transactionReference = "none" => Requests("submitPayment") = 0
              /\ transactionReference \in {Undefined, ""} =>
                    /\ pc = "idle"
                    /\ result = PaymentMethodInvalid
                    /\ Requests("submitPayment") = 0
              /\ transactionReference \notin {"none", Undefined, ""} =>
                    /\ Requests("submitPayment") = 1
                    /\ paymentPayload.kind = "paymentData"
                    /\ paymentPayload.methodId = payload.methodId
                    /\ paymentPayload.shouldSaveInstrument = payload.shouldSaveInstrument
                    /\ paymentPayload.nonce = transactionReference

\* a FullCheckout execute has failed on an empty reference, its order submitted
C14_Witness ==
    /\ Settles("execute")
    /\ handler = "executeWithBoltFullCheckout"
    /\ transactionReference = ""
    /\ result = PaymentMethodInvalid
    /\ \E j \in 1..Len(log) : log[j] = [request |-> "submitOrder", outcome |-> "resolved"]

\* C15: a BoltClientOnly execute with a payment, the client loaded, goes
\* submit-order, apply-store-credit, load-payment-method, provider UI open, in
\* that order; apply-store-credit is dispatched once when the checkout's
\* isStoreCreditApplied is defined (true or false) and never otherwise; when the
\* reloaded payment method is absent or has no client token the call fails with
\* missing-data (payment-method), the UI is neither configured nor opened and no
\* submit-payment is dispatched.
C15_ClientStepsInOrder ==
    ( /\ op = "execute"
      /\ handler = "executeWithBoltClient"
      /\ payload.hasPayment
      /\ entry.boltClient # Undefined ) =>
        /\ Len(log) >= 1
        /\ log[1] = Request("submitOrder")
        /\ \A i \in 1..Len(log) :
              /\ log[i] = Request("applyStoreCredit") =>
                    (i = 3 /\ log[2] = [request |-> "submitOrder", outcome |-> "resolved"])
              /\ log[i] = Request("loadPaymentMethod") =>
                    /\ log[2] = [request |-> "submitOrder", outcome |-> "resolved"]
                    /\ IF Requests("applyStoreCredit") = 1
                       THEN i = 5 /\ log[4] = [request |-> "applyStoreCredit",
                                               outcome |-> "resolved"]
                       ELSE i = 3
              /\ log[i] = Request("open") =>
                    /\ log[i - 1] = Request("configure")
                    /\ log[i - 2] = [request |-> "loadPaymentMethod", outcome |-> "resolved"]
        /\ useStoreCredit \in {JsTrue, JsFalse} => Requests("applyStoreCredit") = 1
        /\ useStoreCredit \notin {JsTrue, JsFalse} => Requests("applyStoreCredit") = 0
        /\ ( /\ loadedPaymentMethod.state = "loaded"
             /\ (~loadedPaymentMethod.found \/ loadedPaymentMethod.clientToken \in {Undefined, ""}) ) =>
              /\ pc = "idle"
              /\ result = MissingPaymentMethod
              /\ Requests("configure") = 0
              /\ Requests("open") = 0
              /\ transaction = NoTransaction
              /\ Requests("submitPayment") = 0
        /\ ( /\ loadedPaymentMethod.state = "loaded"
             /\ loadedPaymentMethod.found
             /\ loadedPaymentMethod.clientToken \notin {Undefined, ""} ) =>
              /\ Requests("configure") = 1
              /\ Requests("open") = 1
        /\ loadedPaymentMethod.state = "none" => Requests("open") = 0

\* a BoltClientOnly execute whose checkout had isStoreCreditApplied = false has
\* applied store credit and failed on a payment method without client token
C15_Witness ==
    /\ Settles("execute")
    /\ handler = "executeWithBoltClient"
    /\ useStoreCredit = JsFalse
    /\ Requests("applyStoreCredit") = 1
    /\ loadedPaymentMethod.state = "loaded"
    /\ loadedPaymentMethod.found
    /\ result = MissingPaymentMethod

\* C16: a BoltClientOnly execute that has opened the provider UI stays
\* suspended, neither settling nor dispatching submit-payment, for as long as no
\* provider callback has fired; and when the store's dispatches settle and the
\* provider fires success or close, every BoltClientOnly execute ends with a
\* result or an error.
C16_SuspendedUntilCallbackThenCompletes ==
    /\ [](( /\ op = "execute"
            /\ handler = "executeWithBoltClient"
            /\ transaction.state # "none"
            /\ fired = <<>> ) =>
              /\ pc = "client_transaction"
              /\ result = "pending"
              /\ transaction.state = "pending"
              /\ Requests("submitPayment") = 0)
    /\ (op = "execute" /\ handler = "executeWithBoltClient" /\ pc # "idle")
           ~> (op = "execute" /\ pc = "idle" /\ result # "pending")

\* a BoltClientOnly execute has ended after the provider closed its UI
C16_Witness ==
    /\ Settles("execute")
    /\ handler = "executeWithBoltClient"
    /\ fired # <<>>
    /\ fired[1].callback = "close"
    /\ result = PaymentMethodCancelled

\* C17: a tokenize result passes validation exactly when its token is not empty
\* and last4, bin and the first two parts of expiration split on '-' (year, then
\* month) are numbers; an empty token fails with argument-invalid whatever the
\* other fields; for a result that passes, the submitted payload has the token
\* unchanged, last_four_digits, iin, expiration_year and expiration_month the
\* numbers of last4, bin, the first and the second part, create_account false
\* and embedded_checkout true; "4242", "411111", "2025-09" give 4242, 411111,
\* month 9 and year 2025.
C17_ValidationAndCardPayload ==
    ( /\ op = "execute"
      /\ handler = "executeWithBoltEmbedded"
      /\ tokenizeResult.kind = "result" ) =>
        /\ (pc = "idle" /\ result = PaymentArgumentInvalid)
               <=> ~WellFormedCard(tokenizeResult)
        /\ tokenizeResult.token = <<>> => result = PaymentArgumentInvalid
        /\ WellFormedCard(tokenizeResult) => Requests("submitOrder") = 1
        /\ Requests("submitPayment") = 1 =>
              /\ paymentPayload.kind = "credit_card_token"
              /\ paymentPayload.token = tokenizeResult.token
              /\ paymentPayload.last_four_digits = ToNumber(tokenizeResult.last4)
              /\ paymentPayload.iin = ToNumber(tokenizeResult.bin)
              /\ paymentPayload.expiration_year
                     = NumberOfPart(Split(tokenizeResult.expiration), 0)
              /\ paymentPayload.expiration_month
                     = NumberOfPart(Split(tokenizeResult.expiration), 1)
              /\ ~paymentPayload.last_four_digits.nan
              /\ ~paymentPayload.iin.nan
              /\ ~paymentPayload.expiration_year.nan
              /\ ~paymentPayload.expiration_month.nan
              /\ paymentPayload.create_account = FALSE
              /\ paymentPayload.embedded_checkout = TRUE
              /\ ( /\ tokenizeResult.last4 = <<"4", "2", "4", "2">>
                   /\ tokenizeResult.bin = <<"4", "1", "1", "1", "1", "1">>
                   /\ tokenizeResult.expiration = <<"2", "0", "2", "5", "-", "0", "9">> ) =>
                    /\ paymentPayload.last_four_digits = [nan |-> FALSE, value |-> 4242]
                    /\ paymentPayload.iin = [nan |-> FALSE, value |-> 411111]
                    /\ paymentPayload.expiration_month = [nan |-> FALSE, value |-> 9]
                    /\ paymentPayload.expiration_year = [nan |-> FALSE, value |-> 2025]

\* the payment of the result "4242", "411111", "2025-09" has been submitted
C17_Witness ==
    /\ Settles("execute")
    /\ handler = "executeWithBoltEmbedded"
    /\ result = "resolved"
    /\ tokenizeResult.kind = "result"
    /\ tokenizeResult.last4 = <<"4", "2", "4", "2">>
    /\ tokenizeResult.expiration = <<"2", "0", "2", "5", "-", "0", "9">>
    /\ paymentPayload.expiration_month = [nan |-> FALSE, value |-> 9]

(***************************************************************************)
(* The specification.                                                      *)
(***************************************************************************)
Next ==
    \/ \E o \in InitializeOptions, pm \in StorePaymentMethods : Initialize(o, pm)
    \/ \E loaded \in BOOLEAN : InitializeBoltClientLoaded(loaded)
    \/ \E loaded \in BOOLEAN : InitializeBoltEmbeddedLoaded(loaded)
    \/ Deinitialize
    \/ Finalize
    \/ \E p \in Payloads : Execute(p)
    \/ \E ok \in BOOLEAN, checkout \in Checkouts : ClientOrderSubmitted(ok, checkout)
    \/ \E ok \in BOOLEAN : ClientStoreCreditApplied(ok)
    \/ \E ok \in BOOLEAN, pm \in LoadedPaymentMethods : ClientPaymentMethodLoaded(ok, pm)
    \/ \E reference \in References : OnSuccess(reference)
    \/ OnClose
    \/ ClientTransactionSettled
    \/ \E ok \in BOOLEAN : ClientPaymentSubmitted(ok)
    \/ \E r \in TokenizeResults : EmbeddedTokenized(r)
    \/ \E ok \in BOOLEAN : EmbeddedOrderSubmitted(ok)
    \/ \E ok \in BOOLEAN : EmbeddedPaymentSubmitted(ok)
    \/ \E ok \in BOOLEAN : FullOrderSubmitted(ok)
    \/ \E ok \in BOOLEAN, reference \in TransactionReferences :
           FullTransactionReference(ok, reference)
    \/ \E ok \in BOOLEAN : FullPaymentSubmitted(ok)

Spec == Init /\ [][Next]_vars

\* the provider calls back while the promise of lines 126-142 is pending
ProviderFires ==
    /\ transaction.state = "pending"
    /\ (OnClose \/ \E reference \in References : OnSuccess(reference))

\* Spec, with the store settling every dispatch of _executeWithBoltClient, the
\* runtime resuming a settled await, and the provider calling back while its UI
\* is open
FairSpec ==
    /\ Spec
    /\ WF_vars(\E ok \in BOOLEAN, checkout \in Checkouts : ClientOrderSubmitted(ok, checkout))
    /\ WF_vars(\E ok \in BOOLEAN : ClientStoreCreditApplied(ok))
    /\ WF_vars(\E ok \in BOOLEAN, pm \in LoadedPaymentMethods :
                   ClientPaymentMethodLoaded(ok, pm))
    /\ WF_vars(ProviderFires)
    /\ WF_vars(ClientTransactionSettled)
    /\ WF_vars(\E ok \in BOOLEAN : ClientPaymentSubmitted(ok))
====
